---- MODULE Spec2Model ----
(***************************************************************************)
(* Model of the Discord bump bot (src/1.py): the one-shot scheduler       *)
(* (scheduled_tasks), the bump workflow engine (bump_tasks), the persisted *)
(* schedule file and the driver loop (main_loop).                          *)
(*                                                                         *)
(* Python dicts are TLA+ records whose DOMAIN is the dict's key set, so a  *)
(* missing key (KeyError) is a field that is not in DOMAIN.  Every dict    *)
(* created by the program also carries "oid", the identity of the Python   *)
(* object: it is what aliasing (completed.append(task), the workflow's     *)
(* scheduled_subtasks) refers to.  Python's == on dicts, json.dump and     *)
(* list.remove never see it (Strip).                                       *)
(*                                                                         *)
(* Text is a TLA+ string; code that inspects characters goes through       *)
(* Chars.  The clock is in whole seconds.                                  *)
(***************************************************************************)
EXTENDS Integers, Sequences, FiniteSets, TLC

VARIABLES
  now,              \* time.time(), in whole seconds
  pc,               \* where the driver is: boot, menu, sched, bump, tail, stopped
  scheduled_tasks,  \* the global list scheduled_tasks
  bump_tasks,       \* the global list bump_tasks
  task_counter,     \* the global task_counter
  schedule_file,    \* contents of schedule.json
  last_cleanup,     \* main_loop's local last_cleanup
  next_oid,         \* identity of the next dict object the program creates
  sends,            \* history: oid -> number of send_message calls made for that command dict
  stop_cause,       \* history: why main_loop ended ("" while it runs): "exit", or
                    \* the function whose exception reached main_loop's except
  unlocked_writes,  \* history: the collections the last handler mutated while it
                    \* did not hold state_lock
  load_dropped,     \* history: how many records load_schedule dropped (its log_warn lines)
  threads,          \* the scheduler tick seen step by step next to a second thread:
                    \* [lock, i, completed, snapshot, producer] (SpecThreads)
  call              \* one call of a parser function: [fn, family, given, arg, done, result]
                    \* (SpecParse)

vars == <<now, pc, scheduled_tasks, bump_tasks, task_counter, schedule_file,
          last_cleanup, next_oid, sends, stop_cause, unlocked_writes, load_dropped,
          threads, call>>

----------------------------------------------------------------------------
(* Bounds of the model *)

MaxFile == 2       \* records in schedule.json when the program starts
MaxObjects == 3    \* add_one_time_task is offered while fewer command dicts than this exist
MaxBump == 2       \* bump workflows created over one run (SpecBump)
MaxMixBump == 1    \* bump workflows created over one run (SpecMix)

(* Program constants *)

MAX_AGE_SECONDS == 300    \* cleanup_old_tasks(max_age_seconds=300)
CLEANUP_INTERVAL == 60    \* main_loop: time.time() - last_cleanup > 60
RESPONSE_WAIT == 5        \* execute_bump_tasks: response_deadline = now + 5
COOLDOWN_BUFFER == 10     \* _schedule_parsed_commands: now + secs + 10
DOUBLE_SPACE_ENABLED == TRUE

\* Python's None where the other values are non-negative integers
None == 0 - 1

----------------------------------------------------------------------------
(* Generic helpers: strings, lists, dicts *)

Chars(s) == [i \in 1..Len(s) |-> SubSeq(s, i, i)]

Range(seq) == {seq[i] : i \in 1..Len(seq)}

RECURSIVE Join(_)
Join(cs) == IF cs = <<>> THEN "" ELSE Head(cs) \o Join(Tail(cs))

startswith(text, ch) == Len(text) >= 1 /\ Chars(text)[1] = ch

Contains(text, ch) == \E i \in 1..Len(text) : Chars(text)[i] = ch

\* a dict without its object identity: what ==, json.dump and list.remove see
Strip(d) == [k \in (DOMAIN d) \ {"oid"} |-> d[k]]

Has(d, k) == k \in DOMAIN d

\* d.get(k, default)
Get(d, k, default) == IF k \in DOMAIN d THEN d[k] ELSE default

\* d[k] = v  (adds the key when it is missing)
Put(d, k, v) == [x \in (DOMAIN d) \cup {k} |-> IF x = k THEN v ELSE d[x]]

RemoveAt(list, i) == SubSeq(list, 1, i - 1) \o SubSeq(list, i + 1, Len(list))

\* a list that keeps the object it is asked to remove
list_remove_nothing(list, obj) == list

\* list.remove(obj): drops the first element that == obj (dict equality by value)
list_remove(list, obj) ==
  LET hits == {i \in 1..Len(list) : Strip(list[i]) = Strip(obj)}
  IN  IF hits = {} THEN list
      ELSE RemoveAt(list, CHOOSE i \in hits : \A j \in hits : i <= j)

ByOid(list, o) == list[CHOOSE i \in 1..Len(list) : list[i].oid = o]

\* datetime.now().strftime("%H:%M:%S"): the time of day, the date is lost
strftime_HMS(t) == t % 86400

----------------------------------------------------------------------------
(* DOUBLE-SPACE HELPERS and send_message *)

IsSpace(c) == c \in {" ", "\t", "\n"}

RECURSIVE SkipSpaces(_, _)
SkipSpaces(cs, i) == IF i <= Len(cs) /\ IsSpace(cs[i]) THEN SkipSpaces(cs, i + 1) ELSE i

\* re.sub(r'([.!?])\s+', "\1  ", text) over the characters from position i on
RECURSIVE SubPunctSpaces(_, _)
SubPunctSpaces(cs, i) ==
  IF i > Len(cs) THEN <<>>
  ELSE IF cs[i] \in {".", "!", "?"} /\ i + 1 <= Len(cs) /\ IsSpace(cs[i + 1])
       THEN <<cs[i], " ", " ">> \o SubPunctSpaces(cs, SkipSpaces(cs, i + 1))
       ELSE <<cs[i]>> \o SubPunctSpaces(cs, i + 1)

EndsWithTwoSpaces(cs) ==
  Len(cs) >= 2 /\ cs[Len(cs)] = " " /\ cs[Len(cs) - 1] = " "

_apply_double_space(text) ==
  LET cs == SubPunctSpaces(Chars(text), 1)
  IN  Join(IF EndsWithTwoSpaces(cs) THEN cs ELSE cs \o <<" ", " ">>)

\* What the GUI automation does on one call: pyautogui.typewrite works or
\* throws (caught in _send_via_typewrite), the clipboard path works or throws
\* (pyperclip.paste() is outside the try, and the try has no except).
Devices == [typewrite_ok : BOOLEAN, clipboard_ok : BOOLEAN]

_send_via_typewrite(dev) == dev.typewrite_ok

\* "True", or "raise" when the exception leaves the function
_send_via_clipboard(dev) == IF dev.clipboard_ok THEN "True" ELSE "raise"

send_message(text, double_enter, double_space, dev) ==
  LET typed == IF DOUBLE_SPACE_ENABLED \/ double_space
               THEN _apply_double_space(text) ELSE text
  IN  IF startswith(typed, "/") THEN _send_via_clipboard(dev)
      ELSE IF _send_via_typewrite(dev) THEN "True"
      ELSE _send_via_clipboard(dev)

----------------------------------------------------------------------------
(* TIME UTILITIES: parse_duration_to_seconds                               *)
(* The parser works on sequences of characters.  TLA+ strings are ASCII,   *)
(* so a Cyrillic letter is the token "cy_" followed by its transliteration *)
(* ("CY_" for a capital), and the other non-ASCII characters of the source *)
(* have the names below.                                                   *)

Digits == Chars("0123456789")
LatinLower == Chars("abcdefghijklmnopqrstuvwxyz")
LatinUpper == Chars("ABCDEFGHIJKLMNOPQRSTUVWXYZ")

LAQUO == "<laquo>"
RAQUO == "<raquo>"
NBHYPHEN == "<U+2011>"
ENDASH == "<U+2013>"
EMDASH == "<U+2014>"

IndexOf(c, alphabet) == CHOOSE i \in 1..Len(alphabet) : alphabet[i] = c

IsDigit(c) == c \in Range(Digits)
IsCyrLower(c) == Len(c) > 3 /\ SubSeq(c, 1, 3) = "cy_"
IsCyrUpper(c) == Len(c) > 3 /\ SubSeq(c, 1, 3) = "CY_"

\* [a-zа-яё]
IsLowerLetter(c) == c \in Range(LatinLower) \/ IsCyrLower(c)

\* \w
IsWordChar(c) ==
  IsDigit(c) \/ c = "_" \/ c \in Range(LatinLower) \/ c \in Range(LatinUpper)
  \/ IsCyrLower(c) \/ IsCyrUpper(c)

\* str.lower() of one character
LowerChar(c) ==
  IF c \in Range(LatinUpper) THEN LatinLower[IndexOf(c, LatinUpper)]
  ELSE IF IsCyrUpper(c) THEN "cy_" \o SubSeq(c, 4, Len(c))
  ELSE c

Lower(cs) == [i \in 1..Len(cs) |-> LowerChar(cs[i])]

\* text.split(",", 1)[0]
BeforeComma(cs) ==
  IF \E i \in 1..Len(cs) : cs[i] = ","
  THEN SubSeq(cs, 1, (CHOOSE i \in 1..Len(cs) :
                        cs[i] = "," /\ \A j \in 1..(i - 1) : cs[j] # ",") - 1)
  ELSE cs

\* re.sub(r"[;:\.\,\(\)\[\]<laquo><raquo>]", " ", s)
PunctToSpace(cs) ==
  [i \in 1..Len(cs) |->
     IF cs[i] \in {";", ":", ".", ",", "(", ")", "[", "]", LAQUO, RAQUO}
     THEN " " ELSE cs[i]]

\* the alternatives of \b(...)\b: Cyrillic i, v, na, Latin c, Cyrillic so,
\* Latin c + Cyrillic o, Cyrillic s
StopWords ==
  { <<"cy_i">>, <<"cy_v">>, <<"cy_n", "cy_a">>, <<"c">>, <<"cy_s", "cy_o">>,
    <<"c", "cy_o">>, <<"cy_s">> }

RECURSIVE WordEnd(_, _)
\* first index after the run of \w characters that starts at i
WordEnd(cs, i) == IF i <= Len(cs) /\ IsWordChar(cs[i]) THEN WordEnd(cs, i + 1) ELSE i

\* re.sub(r"\b(stop words)\b", " ", s): both \b make the match a whole word
RECURSIVE DropStopWords(_, _)
DropStopWords(cs, i) ==
  IF i > Len(cs) THEN <<>>
  ELSE IF IsWordChar(cs[i])
       THEN LET e == WordEnd(cs, i)
                w == SubSeq(cs, i, e - 1)
            IN  (IF w \in StopWords THEN <<" ">> ELSE w) \o DropStopWords(cs, e)
       ELSE <<cs[i]>> \o DropStopWords(cs, i + 1)

\* re.sub(r"\s+", " ", s)
RECURSIVE CollapseSpaces(_, _)
CollapseSpaces(cs, i) ==
  IF i > Len(cs) THEN <<>>
  ELSE IF IsSpace(cs[i]) THEN <<" ">> \o CollapseSpaces(cs, SkipSpaces(cs, i))
  ELSE <<cs[i]>> \o CollapseSpaces(cs, i + 1)

RECURSIVE LStrip(_, _)
LStrip(cs, set) == IF cs # <<>> /\ Head(cs) \in set THEN LStrip(Tail(cs), set) ELSE cs

RECURSIVE RStrip(_, _)
RStrip(cs, set) ==
  IF cs # <<>> /\ cs[Len(cs)] \in set THEN RStrip(SubSeq(cs, 1, Len(cs) - 1), set) ELSE cs

Whitespace == {" ", "\t", "\n"}

\* lines 120-123: what the two scans below read
Normalized(text) ==
  LET s1 == PunctToSpace(Lower(text))
      s2 == DropStopWords(s1, 1)
      s3 == CollapseSpaces(s2, 1)
  IN  RStrip(LStrip(s3, Whitespace), Whitespace)

RECURSIVE DigitsEnd(_, _)
DigitsEnd(cs, i) == IF i <= Len(cs) /\ IsDigit(cs[i]) THEN DigitsEnd(cs, i + 1) ELSE i

RECURSIVE LettersEnd(_, _)
LettersEnd(cs, i) == IF i <= Len(cs) /\ IsLowerLetter(cs[i]) THEN LettersEnd(cs, i + 1) ELSE i

\* int() of the digits cs[a..b]
RECURSIVE IntOf(_, _, _)
IntOf(cs, a, b) ==
  IF b < a THEN 0 ELSE IntOf(cs, a, b - 1) * 10 + (IndexOf(cs[b], Digits) - 1)

\* a unit_map that reads the seconds words as minutes
unit_map_seconds_as_minutes(first) ==
  IF first \in {"cy_ch", "h"} THEN 3600
  ELSE IF first \in {"cy_m", "m", "cy_s", "s"} THEN 60
  ELSE 0

\* unit_map, keyed by the first letter of the word; 0 for an unknown unit
unit_map(first) ==
  IF first \in {"cy_ch", "h"} THEN 3600
  ELSE IF first \in {"cy_m", "m"} THEN 60
  ELSE IF first \in {"cy_s", "s"} THEN 1
  ELSE 0

\* the loop over re.finditer(r"(\d+)\s*([a-z...]+)", s) from position i on
RECURSIVE UnitTotal(_, _)
UnitTotal(cs, i) ==
  IF i > Len(cs) THEN 0
  ELSE IF IsDigit(cs[i])
       THEN LET e == DigitsEnd(cs, i)
                k == SkipSpaces(cs, e)
            IN  IF k <= Len(cs) /\ IsLowerLetter(cs[k])
                THEN unit_map(cs[k]) * IntOf(cs, i, e - 1)
                       + UnitTotal(cs, LettersEnd(cs, k))
                ELSE UnitTotal(cs, e)
       ELSE UnitTotal(cs, i + 1)

\* list(map(int, re.findall(r"\d+", s))) from position i on
RECURSIVE Nums(_, _)
Nums(cs, i) ==
  IF i > Len(cs) THEN <<>>
  ELSE IF IsDigit(cs[i])
       THEN LET e == DigitsEnd(cs, i)
            IN  <<IntOf(cs, i, e - 1)>> \o Nums(cs, e)
       ELSE Nums(cs, i + 1)

\* a fallback that reads the last three numbers instead of the first three
bare_total_last_three(nums) ==
  IF Len(nums) >= 3
  THEN nums[Len(nums) - 2] * 3600 + nums[Len(nums) - 1] * 60 + nums[Len(nums)]
  ELSE IF Len(nums) = 2 THEN nums[1] * 60 + nums[2]
  ELSE IF Len(nums) = 1 THEN nums[1]
  ELSE 0

\* the if/elif chain under "if total == 0": HH:MM:SS, MM:SS, SS
bare_total(nums) ==
  IF Len(nums) >= 3 THEN nums[1] * 3600 + nums[2] * 60 + nums[3]
  ELSE IF Len(nums) = 2 THEN nums[1] * 60 + nums[2]
  ELSE IF Len(nums) = 1 THEN nums[1]
  ELSE 0

\* seconds, or None
parse_duration_to_seconds(text) ==
  LET s == Normalized(BeforeComma(text))
      units == UnitTotal(s, 1)
      total == IF units # 0 THEN units ELSE bare_total(Nums(s, 1))
  IN  IF total > 0 THEN total ELSE None

----------------------------------------------------------------------------
(* MESSAGE EXTRACTION & PARSING *)

\* an Optional[str] that is None
NoneText == <<"<None>">>

\* text.splitlines(), on "\n"
RECURSIVE SplitLines(_)
SplitLines(cs) ==
  IF cs = <<>> THEN <<>>
  ELSE IF \E i \in 1..Len(cs) : cs[i] = "\n"
       THEN LET k == CHOOSE i \in 1..Len(cs) :
                       cs[i] = "\n" /\ \A j \in 1..(i - 1) : cs[j] # "\n"
            IN  <<SubSeq(cs, 1, k - 1)>> \o SplitLines(SubSeq(cs, k + 1, Len(cs)))
       ELSE <<cs>>

\* "\n".join(lines)
RECURSIVE JoinLines(_)
JoinLines(lines) ==
  IF lines = <<>> THEN <<>>
  ELSE IF Len(lines) = 1 THEN lines[1]
  ELSE lines[1] \o <<"\n">> \o JoinLines(Tail(lines))

\* the literal word (lower case) is at position i of cs, ignoring case
MatchAt(cs, i, word) ==
  /\ i + Len(word) - 1 <= Len(cs)
  /\ \A k \in 1..Len(word) : LowerChar(cs[i + k - 1]) = word[k]

COMMANDS == <<"/up", "/bump", "/like">>

\* where a match of "/up|/bump|/like" that starts at i ends (0: no match at i)
SlashCommandEnd(cs, i) ==
  IF MatchAt(cs, i, Chars("/up")) THEN i + 3
  ELSE IF MatchAt(cs, i, Chars("/bump")) THEN i + 5
  ELSE IF MatchAt(cs, i, Chars("/like")) THEN i + 5
  ELSE 0

\* re.compile(r"(?:/up|/bump|/like).*?\d", re.IGNORECASE).search(ln)
cmd_digit(ln) ==
  \E i \in 1..Len(ln) :
    /\ SlashCommandEnd(ln, i) # 0
    /\ \E j \in SlashCommandEnd(ln, i)..Len(ln) :
         /\ IsDigit(ln[j])
         /\ \A k \in SlashCommandEnd(ln, i)..j : ln[k] # "\n"

is_bump_message(text) == cmd_digit(text)

\* candidate[:5]
FirstFive(lines) == SubSeq(lines, 1, IF Len(lines) > 5 THEN 5 ELSE Len(lines))

\* candidate[-5:]
LastFive(lines) == SubSeq(lines, IF Len(lines) > 5 THEN Len(lines) - 4 ELSE 1, Len(lines))

\* the block of candidate lines, or NoneText
extract_latest_bump_message(full_text) ==
  IF full_text = <<>> THEN NoneText
  ELSE
    LET nonblank == SelectSeq(SplitLines(full_text),
                              LAMBDA ln : LStrip(ln, Whitespace) # <<>>)
        lines == [i \in 1..Len(nonblank) |-> RStrip(nonblank[i], Whitespace)]
        candidate == SelectSeq(lines, cmd_digit)
    IN  IF candidate = <<>> THEN NoneText ELSE JoinLines(LastFive(candidate))

\* where a match of the six-way alternation that starts at i ends (0: none)
AnyCommandEnd(cs, i) ==
  IF SlashCommandEnd(cs, i) # 0 THEN SlashCommandEnd(cs, i)
  ELSE IF cs[i] = "!"
       THEN LET k == SkipSpaces(cs, i + 1)
            IN  IF MatchAt(cs, k, Chars("up")) THEN k + 2
                ELSE IF MatchAt(cs, k, Chars("bump")) THEN k + 4
                ELSE IF MatchAt(cs, k, Chars("like")) THEN k + 4
                ELSE 0
       ELSE 0

StripSet == {" ", ":", NBHYPHEN, ENDASH, EMDASH, ",", ".", ";", "|", "#"}

\* seconds, or None
_extract_time_from_line(line) ==
  LET starts == {i \in 1..Len(line) : AnyCommandEnd(line, i) # 0}
  IN  IF starts = {} THEN None
      ELSE
        LET first == CHOOSE i \in starts : \A j \in starts : i <= j
            rest == SubSeq(line, AnyCommandEnd(line, first), Len(line))
            after == RStrip(LStrip(rest, StripSet), StripSet)
        IN  parse_duration_to_seconds(BeforeComma(after))

\* re.search(rf"(?i){re.escape(cmd)}", line)
HasCommand(line, cmd) == \E i \in 1..Len(line) : MatchAt(line, i, Chars(cmd))

\* an inner for loop that breaks only once a line has given a duration
FirstParsedLineResult(lines, cmd) ==
  LET hits == {i \in 1..Len(lines) :
                 HasCommand(lines[i], cmd) /\ _extract_time_from_line(lines[i]) # None}
  IN  IF hits = {} THEN None
      ELSE _extract_time_from_line(lines[CHOOSE i \in hits : \A j \in hits : i <= j])

\* the inner for loop with its break: the first line with cmd decides
FirstLineResult(lines, cmd) ==
  LET hits == {i \in 1..Len(lines) : HasCommand(lines[i], cmd)}
  IN  IF hits = {} THEN None
      ELSE _extract_time_from_line(lines[CHOOSE i \in hits : \A j \in hits : i <= j])

\* the dict {"/up": ..., "/bump": ..., "/like": ..., "success": ...}
parse_time_from_message(message_text) ==
  LET block == extract_latest_bump_message(message_text)
  IN  IF block = NoneText \/ block = <<>>
      THEN [c \in {"/up", "/bump", "/like", "success"} |->
              IF c = "success" THEN FALSE ELSE None]
      ELSE
        LET lines == SplitLines(block)
            result == [c \in {"/up", "/bump", "/like"} |-> FirstLineResult(lines, c)]
        IN  [c \in {"/up", "/bump", "/like", "success"} |->
               IF c = "success"
               THEN \E d \in {"/up", "/bump", "/like"} : result[d] # None
               ELSE result[c]]

----------------------------------------------------------------------------
(* Command validation *)

\* A command value that is not a str (a JSON number, list, ...) is modelled as
\* the marker NotStr, which is none of the texts the model uses.
NotStr == "<not-a-str>"

\* a validation that forgets the reserved separator
_validate_command_allows_bar(cmd) == cmd # NotStr /\ cmd # ""

_validate_command(cmd) ==
  IF cmd = NotStr \/ cmd = "" THEN FALSE
  ELSE IF Contains(cmd, "|") THEN FALSE
  ELSE TRUE

----------------------------------------------------------------------------
(* PERSISTENCE: schedule.json *)

\* json.dump(scheduled_tasks): the dicts by value
Dump(tasks) == [i \in 1..Len(tasks) |-> Strip(tasks[i])]

\* save_schedule(): the file now holds the list (I/O errors are not modelled)
save_schedule(tasks) == [kind |-> "list", records |-> Dump(tasks)]

\* A record of the file that is not a JSON object
NotADict == [json |-> "scalar"]

isinstance_dict(t) == ~ Has(t, "json")

\* load_schedule's filter: the records kept, in order
RECURSIVE Filtered(_)
Filtered(raw) ==
  IF raw = <<>> THEN <<>>
  ELSE LET t == Head(raw)
       IN  IF isinstance_dict(t) /\ _validate_command(Get(t, "command", ""))
           THEN <<t>> \o Filtered(Tail(raw))
           ELSE Filtered(Tail(raw))

\* json.load builds a new dict object for every record
WithOids(records, first) ==
  [i \in 1..Len(records) |-> Put(records[i], "oid", first + i - 1)]

----------------------------------------------------------------------------
(* SCHEDULED TASK MANAGEMENT: execute_scheduled_tasks, cleanup_old_tasks *)

\* the tasks the for loop would send: pending, with a time, and due
IsDue(task, t_now) ==
  /\ Has(task, "status") /\ task.status = "pending"
  /\ Has(task, "time") /\ ~ (t_now < task.time)

DueOids(tasks, t_now) == {tasks[i].oid : i \in {j \in 1..Len(tasks) : IsDue(tasks[j], t_now)}}

Bump1(counts, o) == [counts EXCEPT ![o] = @ + 1]

\* The body of the for loop of execute_scheduled_tasks for the entry at
\* index i.  st = [tasks, completed, sends, raised]: the list (dicts are
\* changed in place), the oids appended to completed, the send history, and
\* whether an exception left the loop (KeyError on task["status"] /
\* task["time"], or send_message raising).
sched_body(st, i, t_now, dev) ==
  LET task == st.tasks[i] IN
  IF ~ Has(task, "status") THEN [st EXCEPT !.raised = TRUE]
  ELSE IF task.status # "pending" THEN st
  ELSE IF ~ Has(task, "time") THEN [st EXCEPT !.raised = TRUE]
  ELSE IF t_now < task.time THEN st
  ELSE
    LET r == send_message(task.command, Get(task, "double_enter", FALSE),
                          Get(task, "double_space", FALSE), dev[task.oid])
        counted == Bump1(st.sends, task.oid)
    IN  IF r = "raise" THEN [st EXCEPT !.raised = TRUE, !.sends = counted]
        ELSE
          LET marked == IF r = "True"
                        THEN Put(Put(task, "status", "executed"), "executed_at", t_now)
                        ELSE Put(task, "status", "error")
          IN  [tasks     |-> [st.tasks EXCEPT ![i] = marked],
               completed |-> Append(st.completed, task.oid),
               sends     |-> counted,
               raised    |-> FALSE]

\* The for loop of execute_scheduled_tasks from index i on.
RECURSIVE sched_loop(_, _, _, _)
sched_loop(st, i, t_now, dev) ==
  IF st.raised \/ i > Len(st.tasks) THEN st
  ELSE sched_loop(sched_body(st, i, t_now, dev), i + 1, t_now, dev)

\* a removal that empties the list whenever something was executed
remove_completed_clears(tasks, completed) == IF completed = <<>> THEN tasks ELSE <<>>

\* for t in completed: scheduled_tasks.remove(t)
RECURSIVE remove_completed(_, _)
remove_completed(tasks, completed) ==
  IF completed = <<>> THEN tasks
  ELSE remove_completed(list_remove(tasks, Head(completed)), Tail(completed))

\* execute_scheduled_tasks(): [tasks, sends, raised]
execute_scheduled_tasks(tasks, counts, t_now, dev) ==
  LET st == sched_loop([tasks |-> tasks, completed |-> <<>>, sends |-> counts,
                        raised |-> FALSE], 1, t_now, dev)
      done == [i \in 1..Len(st.completed) |-> ByOid(st.tasks, st.completed[i])]
  IN  [tasks  |-> IF st.raised THEN st.tasks ELSE remove_completed(st.tasks, done),
       sends  |-> st.sends,
       raised |-> st.raised]

\* the list comprehension of cleanup_old_tasks
Kept(tasks, t_now, max_age_seconds) ==
  SelectSeq(tasks, LAMBDA t : t.time > t_now - max_age_seconds)

\* cleanup_old_tasks(max_age_seconds): [tasks, raised]; t["time"] on a dict
\* without the key raises before the list is assigned
cleanup_old_tasks(tasks, t_now, max_age_seconds) ==
  IF \E i \in 1..Len(tasks) : ~ Has(tasks[i], "time")
  THEN [tasks |-> tasks, raised |-> TRUE]
  ELSE [tasks |-> Kept(tasks, t_now, max_age_seconds), raised |-> FALSE]

----------------------------------------------------------------------------
(* COPY HELPERS: get_last_bump_message *)

TwoDigits(cs, i) == i + 1 <= Len(cs) /\ IsDigit(cs[i]) /\ IsDigit(cs[i + 1])

\* \b\d{2}:\d{2}:\d{2}\b at position j
TimestampAt(cs, j) ==
  /\ j + 7 <= Len(cs)
  /\ (j = 1 \/ ~ IsWordChar(cs[j - 1]))
  /\ TwoDigits(cs, j) /\ cs[j + 2] = ":" /\ TwoDigits(cs, j + 3)
  /\ cs[j + 5] = ":" /\ TwoDigits(cs, j + 6)
  /\ (j + 8 > Len(cs) \/ ~ IsWordChar(cs[j + 8]))

\* r":\w+:\s*(/up|/bump|/like)\b.*\b\d{2}:\d{2}:\d{2}\b" matches in the line
LooksLikeBumpLine(ln) ==
  \E i \in 1..Len(ln) :
    /\ ln[i] = ":"
    /\ WordEnd(ln, i + 1) > i + 1
    /\ WordEnd(ln, i + 1) <= Len(ln) /\ ln[WordEnd(ln, i + 1)] = ":"
    /\ LET c == SkipSpaces(ln, WordEnd(ln, i + 1) + 1)
           e == IF c <= Len(ln) THEN SlashCommandEnd(ln, c) ELSE 0
       IN  /\ e # 0
           /\ (e > Len(ln) \/ ~ IsWordChar(ln[e]))
           /\ \E j \in e..Len(ln) : TimestampAt(ln, j)

_looks_like_real_bump(text) ==
  \E k \in 1..Len(SplitLines(Chars(text))) : LooksLikeBumpLine(SplitLines(Chars(text))[k])

\* What the clipboard holds after the context-menu copy (menu) and after
\* Ctrl+A / Ctrl+C (ctrl_a), and whether the Ctrl+A path throws
\* (pyperclip.paste() and the pyautogui calls are outside any except).
\* The result: [kind |-> "text" | "None" | "raise", text].
_copy_via_context_menu(env) ==
  IF env.menu = "" THEN "" ELSE IF _looks_like_real_bump(env.menu) THEN env.menu ELSE ""

_copy_via_ctrl_a(env) ==
  IF env.ctrl_a_raises THEN [kind |-> "raise", text |-> ""]
  ELSE IF env.ctrl_a # "" /\ _looks_like_real_bump(env.ctrl_a)
       THEN [kind |-> "text", text |-> env.ctrl_a]
       ELSE [kind |-> "None", text |-> ""]

get_last_bump_message(env) ==
  IF _copy_via_context_menu(env) # ""
  THEN [kind |-> "text", text |-> _copy_via_context_menu(env)]
  ELSE _copy_via_ctrl_a(env)

----------------------------------------------------------------------------
(* BUMP-TASK MANAGEMENT: _schedule_parsed_commands, execute_bump_tasks *)

IndexOfId(list, id) == CHOOSE i \in 1..Len(list) : list[i].id = id

subtask_id(task_id, cmd) == <<"bump", task_id, cmd>>

\* a subtask scheduled at the end of the cooldown, without the 10 s cushion
new_subtask_without_buffer(task, cmd, secs, t_now, oid) ==
  [id |-> subtask_id(task.id, cmd),
   time |-> t_now + secs,
   command |-> cmd,
   double_enter |-> task.double_enter,
   double_space |-> DOUBLE_SPACE_ENABLED,
   source_task_id |-> task.id,
   status |-> "pending",
   created_at |-> strftime_HMS(t_now),
   oid |-> oid]

\* exec_time = now + secs + 10; subtask = {...}
new_subtask(task, cmd, secs, t_now, oid) ==
  [id |-> subtask_id(task.id, cmd),
   time |-> t_now + secs + COOLDOWN_BUFFER,
   command |-> cmd,
   double_enter |-> task.double_enter,
   double_space |-> DOUBLE_SPACE_ENABLED,
   source_task_id |-> task.id,
   status |-> "pending",
   created_at |-> strftime_HMS(t_now),
   oid |-> oid]

\* The for loop of _schedule_parsed_commands over commands_to_schedule[k..].
\* ctx = [bump, sched, file, next_oid, sends, raised]
RECURSIVE schedule_loop(_, _, _, _)
schedule_loop(ctx, id, k, t_now) ==
  LET task == ctx.bump[IndexOfId(ctx.bump, id)] IN
  IF k > Len(task.commands_to_schedule) THEN ctx
  ELSE
    LET cmd == task.commands_to_schedule[k]
        secs == Get(task.parsed_times, cmd, None)
    IN  IF secs = None \/ secs = 0 THEN schedule_loop(ctx, id, k + 1, t_now)
        ELSE
          LET subtask == new_subtask(task, cmd, secs, t_now, ctx.next_oid)
              task2 == [task EXCEPT !.scheduled_subtasks = Append(@, ctx.next_oid)]
          IN  schedule_loop([ctx EXCEPT !.sched = Append(@, subtask),
                                        !.bump[IndexOfId(ctx.bump, id)] = task2,
                                        !.next_oid = @ + 1,
                                        !.sends = Append(@, 0)],
                            id, k + 1, t_now)

\* a scheduling step that leaves the file as it was
_schedule_parsed_commands_no_save(ctx, id, t_now) == schedule_loop(ctx, id, 1, t_now)

\* _schedule_parsed_commands(task): save_schedule() when something was added
_schedule_parsed_commands(ctx, id, t_now) ==
  LET out == schedule_loop(ctx, id, 1, t_now)
  IN  IF out.next_oid # ctx.next_oid
      THEN [out EXCEPT !.file = save_schedule(out.sched)]
      ELSE out

SetStatus(ctx, id, status) ==
  [ctx EXCEPT !.bump[IndexOfId(ctx.bump, id)].status = status]

SetField(ctx, id, k, v) ==
  [ctx EXCEPT !.bump[IndexOfId(ctx.bump, id)] = Put(@, k, v)]

\* elif status == "sending": send_message(...) returns True or raises
step_sending(ctx, id, t_now, dev) ==
  LET task == ctx.bump[IndexOfId(ctx.bump, id)]
      r == send_message(task.command, task.double_enter,
                        Get(task, "double_space", FALSE), dev)
  IN  IF r = "raise" THEN [ctx EXCEPT !.raised = TRUE]
      ELSE IF r = "True"
           THEN SetField(SetStatus(ctx, id, "waiting_response"), id,
                         "response_deadline", t_now + RESPONSE_WAIT)
           ELSE SetStatus(ctx, id, "failed")

\* a reading step that tries again on the next tick after an empty capture
step_reading_keeps_reading(ctx, id, cap) ==
  LET msg == get_last_bump_message(cap)
  IN  IF msg.kind = "raise" THEN [ctx EXCEPT !.raised = TRUE]
      ELSE IF msg.kind = "text" /\ msg.text # ""
           THEN SetStatus(SetField(ctx, id, "message", msg.text), id, "parsing")
           ELSE ctx

\* elif status == "reading": msg = get_last_bump_message(); if msg: ... else: failed
step_reading(ctx, id, cap) ==
  LET msg == get_last_bump_message(cap)
  IN  IF msg.kind = "raise" THEN [ctx EXCEPT !.raised = TRUE]
      ELSE IF msg.kind = "text" /\ msg.text # ""
           THEN SetStatus(SetField(ctx, id, "message", msg.text), id, "parsing")
           ELSE SetStatus(ctx, id, "failed")

\* a parsing step that goes on to scheduling whatever the parse said
step_parsing_always_schedules(ctx, id) ==
  LET task == ctx.bump[IndexOfId(ctx.bump, id)]
      parsed == parse_time_from_message(Chars(Get(task, "message", "")))
  IN  SetStatus(SetField(ctx, id, "parsed_times", parsed), id, "scheduling")

\* elif status == "parsing": parsed = parse_time_from_message(task.get("message", ""))
step_parsing(ctx, id) ==
  LET task == ctx.bump[IndexOfId(ctx.bump, id)]
      parsed == parse_time_from_message(Chars(Get(task, "message", "")))
  IN  IF parsed["success"]
      THEN SetStatus(SetField(ctx, id, "parsed_times", parsed), id, "scheduling")
      ELSE SetStatus(ctx, id, "failed")

\* a loop body that starts reading without looking at response_deadline
bump_step_without_deadline(ctx, id, t_now, dev, cap) ==
  LET task == ctx.bump[IndexOfId(ctx.bump, id)]
      status == task.status
  IN
  IF status = "waiting" /\ t_now >= task.start_time
    THEN SetStatus(ctx, id, "sending")
  ELSE IF status = "sending"
    THEN step_sending(ctx, id, t_now, dev[id])
  ELSE IF status = "waiting_response"
    THEN SetStatus(ctx, id, "reading")
  ELSE IF status = "reading"
    THEN step_reading(ctx, id, cap[id])
  ELSE IF status = "parsing"
    THEN step_parsing(ctx, id)
  ELSE IF status = "scheduling"
    THEN SetStatus(_schedule_parsed_commands(ctx, id, t_now), id, "completed")
  ELSE IF status \in {"failed", "completed"}
    THEN [ctx EXCEPT !.bump = list_remove(@, task)]
  ELSE ctx

\* The body of the for loop of execute_bump_tasks for the workflow id
bump_step(ctx, id, t_now, dev, cap) ==
  LET task == ctx.bump[IndexOfId(ctx.bump, id)]
      status == task.status
  IN
  IF status = "waiting" /\ t_now >= task.start_time
    THEN SetStatus(ctx, id, "sending")
  ELSE IF status = "sending"
    THEN step_sending(ctx, id, t_now, dev[id])
  ELSE IF status = "waiting_response" /\ t_now >= Get(task, "response_deadline", 0)
    THEN SetStatus(ctx, id, "reading")
  ELSE IF status = "reading"
    THEN step_reading(ctx, id, cap[id])
  ELSE IF status = "parsing"
    THEN step_parsing(ctx, id)
  ELSE IF status = "scheduling"
    THEN SetStatus(_schedule_parsed_commands(ctx, id, t_now), id, "completed")
  ELSE IF status \in {"failed", "completed"}
    THEN [ctx EXCEPT !.bump = list_remove(@, task)]
  ELSE ctx

\* a loop that gives up on the rest of the tick once a workflow has failed
RECURSIVE bump_loop_stops_at_failed(_, _, _, _, _)
bump_loop_stops_at_failed(ctx, ids, t_now, dev, cap) ==
  IF \/ ids = <<>>
     \/ ctx.raised
     \/ \E i \in 1..Len(ctx.bump) : ctx.bump[i].status = "failed"
  THEN ctx
  ELSE bump_loop_stops_at_failed(bump_step(ctx, Head(ids), t_now, dev, cap),
                                 Tail(ids), t_now, dev, cap)

\* for task in bump_tasks[:] -- ids is the copy; an exception ends the loop
RECURSIVE bump_loop(_, _, _, _, _)
bump_loop(ctx, ids, t_now, dev, cap) ==
  IF ids = <<>> \/ ctx.raised THEN ctx
  ELSE bump_loop(bump_step(ctx, Head(ids), t_now, dev, cap), Tail(ids), t_now, dev, cap)

Ids(list) == [i \in 1..Len(list) |-> list[i].id]

\* execute_bump_tasks()
execute_bump_tasks(ctx, t_now, dev, cap) ==
  bump_loop(ctx, Ids(ctx.bump), t_now, dev, cap)

----------------------------------------------------------------------------
(* Inputs the model draws from *)

\* records schedule.json may hold when the program starts
FileRecord(id, time, command, status) ==
  [id |-> id, time |-> time, command |-> command, double_enter |-> FALSE,
   double_space |-> TRUE, status |-> status, created_at |-> 0]

RawRecords ==
  { FileRecord(<<"manual", 0>>, 0, "hi", "pending"),
    FileRecord(<<"manual", 0 - 5>>, 5, "/up", "pending"),
    FileRecord(<<"manual", 0 - 300>>, 0 - 300, "/up", "executed"),
    FileRecord(<<"manual", 0 - 5>>, 0 - 5, "", "pending"),
    FileRecord(<<"manual", 0 - 5>>, 0 - 5, "a|b", "pending"),
    FileRecord(<<"manual", 0 - 5>>, 0 - 5, NotStr, "pending"),
    [id |-> <<"manual", 0 - 5>>, time |-> 0 - 5, command |-> "hi"],
    [id |-> <<"manual", 0 - 5>>, time |-> 0 - 5, status |-> "pending"],
    NotADict }

RECURSIVE SeqsUpTo(_, _)
SeqsUpTo(S, n) ==
  IF n = 0 THEN {<<>>}
  ELSE SeqsUpTo(S, n - 1) \cup {Append(q, x) : q \in SeqsUpTo(S, n - 1), x \in S}

InitialFiles ==
  {[kind |-> "missing", records |-> <<>>], [kind |-> "garbage", records |-> <<>>]}
  \cup {[kind |-> "list", records |-> r] : r \in SeqsUpTo(RawRecords, MaxFile)}

\* what the operator types at the prompts of add_one_time_task:
\* the command, whether the delay is a number, the delay, "y" for double Enter
ManualInputs ==
  { [cmd |-> "",    numeric |-> TRUE,  delay |-> 0, double_enter |-> FALSE],
    [cmd |-> "a|b", numeric |-> TRUE,  delay |-> 0, double_enter |-> FALSE],
    [cmd |-> "hi",  numeric |-> FALSE, delay |-> 0, double_enter |-> FALSE],
    [cmd |-> "hi",  numeric |-> TRUE,  delay |-> 0, double_enter |-> FALSE],
    [cmd |-> "/up", numeric |-> TRUE,  delay |-> 5, double_enter |-> TRUE] }

BumpManualInputs ==
  { [cmd |-> "hi",  numeric |-> TRUE,  delay |-> 5, double_enter |-> FALSE] }

\* ... and at the prompts of add_bump_parse_task; targets is the entry of
\* mapping the menu choice selects
BumpInputs ==
  { [cmd |-> "a|b",      delay |-> 0, targets |-> <<"/up">>, double_enter |-> FALSE],
    [cmd |-> "/getbump", delay |-> 0, targets |-> <<"/up", "/bump", "/like">>, double_enter |-> FALSE],
    [cmd |-> "/getbump", delay |-> 5, targets |-> <<"/bump">>, double_enter |-> TRUE] }

\* clipboard contents
MsgFull == ":a: /up: 5s, 10:00:00\n/bump 15s\n/like 1m"
MsgUp == ":a: /up: 5s, 10:00:00"
MsgBad == ":a: /up: soon, 10:00:00"
CaptureEnvs ==
  { [menu |-> MsgUp,   ctrl_a |-> "",      ctrl_a_raises |-> FALSE],
    [menu |-> "",      ctrl_a |-> MsgFull, ctrl_a_raises |-> FALSE],
    [menu |-> "hello", ctrl_a |-> MsgBad,  ctrl_a_raises |-> FALSE],
    [menu |-> "",      ctrl_a |-> "",      ctrl_a_raises |-> FALSE],
    [menu |-> "",      ctrl_a |-> "",      ctrl_a_raises |-> TRUE] }

\* the clock readings at which iterations of main_loop run: the operator's
\* session (Spec) and a bump cycle (SpecBump)
Instants == {0, 5, 66, 305}
BumpInstants == {0, 5, 20}

----------------------------------------------------------------------------
(* The program: main() and main_loop() *)

\* state_lock is free, no tick is under way, the second thread is idle
\* no parser call is being followed
NoCall == [fn |-> "", family |-> "", given |-> <<>>, arg |-> <<>>, done |-> FALSE,
           result |-> None]

NoThreads ==
  [lock |-> "free", i |-> 0, completed |-> <<>>, snapshot |-> {}, producer |-> "idle"]

Init ==
  /\ now = 0
  /\ pc = "boot"
  /\ scheduled_tasks = <<>>
  /\ bump_tasks = <<>>
  /\ task_counter = 0
  /\ schedule_file \in InitialFiles
  /\ last_cleanup = 0
  /\ next_oid = 1
  /\ sends = <<>>
  /\ stop_cause = ""
  /\ unlocked_writes = {}
  /\ load_dropped = 0
  /\ threads = NoThreads
  /\ call = NoCall

\* main_loop's except / finally after an exception left the loop body
Crash(tasks, where) ==
  /\ pc' = "stopped"
  /\ stop_cause' = where
  /\ schedule_file' = save_schedule(tasks)

\* load_schedule(), then main_loop() starts
LoadSchedule ==
  /\ pc = "boot"
  /\ LET filtered == Filtered(schedule_file.records) IN
     /\ scheduled_tasks' = IF schedule_file.kind = "list"
                           THEN WithOids(filtered, next_oid) ELSE <<>>
     /\ next_oid' = next_oid + Len(scheduled_tasks')
     /\ sends' = sends \o [i \in 1..Len(scheduled_tasks') |-> 0]
     /\ schedule_file' = IF schedule_file.kind = "list"
                            /\ Len(schedule_file.records) # Len(filtered)
                         THEN save_schedule(scheduled_tasks')
                         ELSE schedule_file
     /\ load_dropped' = IF schedule_file.kind = "list"
                        THEN Len(schedule_file.records) - Len(filtered) ELSE 0
  /\ pc' = "menu"
  /\ last_cleanup' = now
  /\ unlocked_writes' = {"scheduled_tasks"}
  /\ UNCHANGED <<now, bump_tasks, task_counter, stop_cause, threads, call>>

\* the dict add_one_time_task appends
manual_task(in, t_now, oid) ==
  [id |-> <<"manual", t_now>>,
   time |-> t_now + in.delay,
   command |-> in.cmd,
   double_enter |-> in.double_enter,
   double_space |-> DOUBLE_SPACE_ENABLED,
   status |-> "pending",
   created_at |-> strftime_HMS(t_now),
   oid |-> oid]

\* menu choice 2: add_one_time_task()
AddOneTimeTask(inputs) ==
  /\ pc = "menu"
  /\ next_oid <= MaxObjects
  /\ \E in \in inputs :
       IF _validate_command(in.cmd) /\ in.numeric
       THEN /\ scheduled_tasks' = Append(scheduled_tasks, manual_task(in, now, next_oid))
            /\ next_oid' = next_oid + 1
            /\ sends' = Append(sends, 0)
            /\ schedule_file' = save_schedule(scheduled_tasks')
       ELSE UNCHANGED <<scheduled_tasks, next_oid, sends, schedule_file>>
  /\ pc' = "sched"
  /\ unlocked_writes' = {}
  /\ UNCHANGED <<now, bump_tasks, task_counter, last_cleanup, stop_cause, load_dropped, threads, call>>

\* menu choice 3: add_bump_parse_task()
AddBumpParseTask(max_workflows) ==
  /\ pc = "menu"
  /\ task_counter < max_workflows
  /\ \E in \in BumpInputs :
       /\ IF _validate_command(in.cmd)
          THEN /\ task_counter' = task_counter + 1
               /\ bump_tasks' = Append(bump_tasks,
                    [id |-> task_counter,
                     command |-> in.cmd,
                     start_time |-> now + in.delay,
                     commands_to_schedule |-> in.targets,
                     double_enter |-> in.double_enter,
                     double_space |-> DOUBLE_SPACE_ENABLED,
                     status |-> "waiting",
                     parsed_times |-> <<>>,
                     scheduled_subtasks |-> <<>>,
                     created_at |-> now])
               /\ unlocked_writes' = {"bump_tasks"}
          ELSE /\ UNCHANGED <<task_counter, bump_tasks>>
               /\ unlocked_writes' = {}
  /\ pc' = "sched"
  /\ UNCHANGED <<now, scheduled_tasks, schedule_file, last_cleanup, next_oid, sends,
                 stop_cause, load_dropped, threads, call>>

\* menu choice 1: show_schedule() reads t["time"] of every task
ShowSchedule ==
  /\ pc = "menu"
  /\ IF \E i \in 1..Len(scheduled_tasks) : ~ Has(scheduled_tasks[i], "time")
     THEN Crash(scheduled_tasks, "show_schedule")
     ELSE pc' = "sched" /\ UNCHANGED <<schedule_file, stop_cause>>
  /\ unlocked_writes' = {}
  /\ UNCHANGED <<now, scheduled_tasks, bump_tasks, task_counter, last_cleanup, next_oid,
                 sends, load_dropped, threads, call>>

\* menu choice 7: cleanup_old_schedule()
CleanupOldSchedule ==
  /\ pc = "menu"
  /\ \E out \in {cleanup_old_tasks(scheduled_tasks, now, MAX_AGE_SECONDS)} :
     /\ scheduled_tasks' = out.tasks
     /\ IF out.raised THEN Crash(out.tasks, "cleanup_old_tasks")
        ELSE /\ schedule_file' = save_schedule(out.tasks)
             /\ pc' = "sched"
             /\ UNCHANGED stop_cause
  /\ unlocked_writes' = {}
  /\ UNCHANGED <<now, bump_tasks, task_counter, last_cleanup, next_oid, sends, load_dropped, threads, call>>

\* menu choice 8: save_schedule(); sys.exit(0), through main_loop's finally
MenuExit ==
  /\ pc = "menu"
  /\ schedule_file' = save_schedule(scheduled_tasks)
  /\ pc' = "stopped"
  /\ stop_cause' = "exit"
  /\ unlocked_writes' = {}
  /\ UNCHANGED <<now, scheduled_tasks, bump_tasks, task_counter, last_cleanup, next_oid,
                 sends, load_dropped, threads, call>>

\* main_loop: execute_scheduled_tasks() (the hotkey was not pressed when pc = "menu")
ExecuteScheduledTasks ==
  /\ pc \in {"menu", "sched"}
  /\ \E dev \in [DueOids(scheduled_tasks, now) -> Devices] :
       \E out \in {execute_scheduled_tasks(scheduled_tasks, sends, now, dev)} :
       /\ scheduled_tasks' = out.tasks
       /\ sends' = out.sends
       /\ IF out.raised THEN Crash(out.tasks, "execute_scheduled_tasks")
          ELSE pc' = "bump" /\ UNCHANGED <<schedule_file, stop_cause>>
  /\ unlocked_writes' = {}
  /\ UNCHANGED <<now, bump_tasks, task_counter, last_cleanup, next_oid, load_dropped, threads, call>>

InStatus(list, status) == {list[i].id : i \in {j \in 1..Len(list) : list[j].status = status}}

\* the globals execute_bump_tasks() starts from
TickCtx ==
  [bump |-> bump_tasks, sched |-> scheduled_tasks, file |-> schedule_file,
   next_oid |-> next_oid, sends |-> sends, raised |-> FALSE]

\* a main_loop that calls execute_scheduled_tasks() again after execute_bump_tasks()
ExecuteBumpTasksThenScheduler ==
  /\ pc = "bump"
  /\ \E dev \in [InStatus(bump_tasks, "sending") -> Devices],
        cap \in [InStatus(bump_tasks, "reading") -> CaptureEnvs] :
       \E out \in {execute_bump_tasks(TickCtx, now, dev, cap)} :
           /\ bump_tasks' = out.bump
           /\ scheduled_tasks' = out.sched
           /\ next_oid' = out.next_oid
           /\ sends' = out.sends
           /\ unlocked_writes' = IF out.bump # bump_tasks THEN {"bump_tasks"} ELSE {}
           /\ IF out.raised THEN Crash(out.sched, "execute_bump_tasks")
              ELSE /\ schedule_file' = out.file
                   /\ pc' = "sched"
                   /\ UNCHANGED stop_cause
  /\ UNCHANGED <<now, task_counter, last_cleanup, load_dropped, threads, call>>

\* main_loop: execute_bump_tasks()
ExecuteBumpTasks ==
  /\ pc = "bump"
  /\ \E dev \in [InStatus(bump_tasks, "sending") -> Devices],
        cap \in [InStatus(bump_tasks, "reading") -> CaptureEnvs] :
       \E out \in {execute_bump_tasks(TickCtx, now, dev, cap)} :
           /\ bump_tasks' = out.bump
           /\ scheduled_tasks' = out.sched
           /\ next_oid' = out.next_oid
           /\ sends' = out.sends
           /\ unlocked_writes' = IF out.bump # bump_tasks THEN {"bump_tasks"} ELSE {}
           /\ IF out.raised THEN Crash(out.sched, "execute_bump_tasks")
              ELSE /\ schedule_file' = out.file
                   /\ pc' = "tail"
                   /\ UNCHANGED stop_cause
  /\ UNCHANGED <<now, task_counter, last_cleanup, load_dropped, threads, call>>

\* main_loop: the periodic cleanup_old_tasks() and time.sleep(0.1); the next
\* iteration runs at the clock reading later
LoopTail(instants) ==
  /\ pc = "tail"
  /\ \E later \in instants :
       /\ later >= now
       /\ now' = later
       /\ IF now - last_cleanup > CLEANUP_INTERVAL
          THEN \E out \in {cleanup_old_tasks(scheduled_tasks, now, MAX_AGE_SECONDS)} :
               /\ scheduled_tasks' = out.tasks
               /\ IF out.raised THEN Crash(out.tasks, "cleanup_old_tasks")
                  ELSE /\ last_cleanup' = now
                       /\ pc' = "menu"
                       /\ UNCHANGED <<schedule_file, stop_cause>>
          ELSE /\ pc' = "menu"
               /\ UNCHANGED <<scheduled_tasks, last_cleanup, schedule_file, stop_cause>>
  /\ unlocked_writes' = {}
  /\ UNCHANGED <<bump_tasks, task_counter, next_oid, sends, load_dropped, threads, call>>

\* The operator's session: the persisted file, manual one-shot commands,
\* the scheduler and the clean-up; no bump workflow is created.
Next ==
  \/ LoadSchedule
  \/ AddOneTimeTask(ManualInputs)
  \/ ShowSchedule
  \/ CleanupOldSchedule
  \/ MenuExit
  \/ ExecuteScheduledTasks
  \/ ExecuteBumpTasks
  \/ LoopTail(Instants)

Spec == Init /\ [][Next]_vars

\* Bump cycles: workflows are created and run, and the commands they spawn
\* are executed; schedule.json holds a command that workflow 0 of an earlier
\* run spawned.
BumpFiles ==
  { [kind |-> "list",
     records |-> <<Put(FileRecord(subtask_id(0, "/up"), 10, "/up", "pending"),
                       "source_task_id", 0),
                   FileRecord(<<"manual", 0 - 5>>, 0 - 5, "/like", "error")>>] }

InitBump ==
  /\ now = 0
  /\ pc = "boot"
  /\ scheduled_tasks = <<>>
  /\ bump_tasks = <<>>
  /\ task_counter = 0
  /\ schedule_file \in BumpFiles
  /\ last_cleanup = 0
  /\ next_oid = 1
  /\ sends = <<>>
  /\ stop_cause = ""
  /\ unlocked_writes = {}
  /\ load_dropped = 0
  /\ threads = NoThreads
  /\ call = NoCall

NextBump ==
  \/ LoadSchedule
  \/ AddBumpParseTask(MaxBump)
  \/ ExecuteScheduledTasks
  \/ ExecuteBumpTasks
  \/ LoopTail(BumpInstants)

SpecBump == InitBump /\ [][NextBump]_vars

\* the sleep at the end of an iteration returns at a later clock reading
TimePasses == LoopTail(BumpInstants) /\ now' > now

\* main_loop is `while True`: as long as no exception ends it, it goes on to
\* its next call, and time.time() goes on.  Each tick is enabled exactly
\* where pc says so and every step of it changes pc, so its weak fairness
\* is written as "pc does not stay there".
SpecBumpLive ==
  /\ SpecBump
  /\ []<>(pc \notin {"menu", "sched"})
  /\ []<>(pc # "bump")
  /\ WF_vars(LoopTail(BumpInstants))
  /\ SF_vars(TimePasses)

\* A session that mixes manual one-shot commands with a bump workflow.
NextMix ==
  \/ LoadSchedule
  \/ AddOneTimeTask(BumpManualInputs)
  \/ AddBumpParseTask(MaxMixBump)
  \/ ExecuteScheduledTasks
  \/ ExecuteBumpTasks
  \/ LoopTail(BumpInstants)

SpecMix == InitBump /\ [][NextMix]_vars

----------------------------------------------------------------------------
(* The scheduler tick step by step, next to a second thread that calls      *)
(* add_one_time_task().  execute_scheduled_tasks holds state_lock from      *)
(* before its for loop until after the removals; the for loop walks the     *)
(* list scheduled_tasks itself, by index.                                    *)

ThreadFiles ==
  {[kind |-> "list", records |-> r] :
     r \in SeqsUpTo({FileRecord(<<"manual", 0>>, 0, "hi", "pending"),
                     FileRecord(<<"manual", 0 - 5>>, 5, "/up", "pending")}, MaxFile)}

ThreadInputs ==
  { [cmd |-> "hi", numeric |-> TRUE, delay |-> 0, double_enter |-> FALSE] }

ThreadInstants == {0, 5}

Oids(list) == {list[k].oid : k \in 1..Len(list)}

InitThreads ==
  /\ now = 0
  /\ pc = "boot"
  /\ scheduled_tasks = <<>>
  /\ bump_tasks = <<>>
  /\ task_counter = 0
  /\ schedule_file \in ThreadFiles
  /\ last_cleanup = 0
  /\ next_oid = 1
  /\ sends = <<>>
  /\ stop_cause = ""
  /\ unlocked_writes = {}
  /\ load_dropped = 0
  /\ threads = NoThreads
  /\ call = NoCall

\* execute_scheduled_tasks: now = time.time(); completed = []; with state_lock:
TickAcquire ==
  /\ pc \in {"menu", "sched"}
  /\ threads.lock = "free"
  /\ threads' = [threads EXCEPT !.lock = "tick", !.i = 1, !.completed = <<>>,
                                !.snapshot = Oids(scheduled_tasks)]
  /\ pc' = "in_tick"
  /\ unlocked_writes' = {}
  /\ UNCHANGED <<now, scheduled_tasks, bump_tasks, task_counter, schedule_file,
                 last_cleanup, next_oid, sends, stop_cause, load_dropped, call>>

\* one iteration of `for task in scheduled_tasks:`; an exception leaves the
\* with block (the lock is released) and main_loop
TickIterate ==
  /\ pc = "in_tick"
  /\ threads.i <= Len(scheduled_tasks)
  /\ \E d \in Devices :
       \E st \in {sched_body([tasks |-> scheduled_tasks, completed |-> threads.completed,
                              sends |-> sends, raised |-> FALSE],
                             threads.i, now,
                             [o \in {scheduled_tasks[threads.i].oid} |-> d])} :
         /\ scheduled_tasks' = st.tasks
         /\ sends' = st.sends
         /\ IF st.raised
            THEN /\ Crash(st.tasks, "execute_scheduled_tasks")
                 /\ threads' = [threads EXCEPT !.lock = "free"]
            ELSE /\ threads' = [threads EXCEPT !.i = @ + 1, !.completed = st.completed]
                 /\ UNCHANGED <<pc, schedule_file, stop_cause>>
  /\ unlocked_writes' = {}
  /\ UNCHANGED <<now, bump_tasks, task_counter, last_cleanup, next_oid, load_dropped, call>>

\* the for loop is over: for t in completed: scheduled_tasks.remove(t); the
\* with block ends
TickFinish ==
  /\ pc = "in_tick"
  /\ threads.i > Len(scheduled_tasks)
  /\ scheduled_tasks' =
       remove_completed(scheduled_tasks,
                        [k \in 1..Len(threads.completed) |->
                           ByOid(scheduled_tasks, threads.completed[k])])
  /\ threads' = [threads EXCEPT !.lock = "free", !.i = 0, !.completed = <<>>,
                                !.snapshot = {}]
  /\ pc' = "bump"
  /\ unlocked_writes' = {}
  /\ UNCHANGED <<now, bump_tasks, task_counter, schedule_file, last_cleanup, next_oid,
                 sends, stop_cause, load_dropped, call>>

\* the second thread has read its inputs and reaches `with state_lock:`
ProducerCall ==
  /\ pc \notin {"boot", "stopped"}
  /\ threads.producer = "idle"
  /\ next_oid <= MaxObjects
  /\ threads' = [threads EXCEPT !.producer = "waiting"]
  /\ UNCHANGED <<now, pc, scheduled_tasks, bump_tasks, task_counter, schedule_file,
                 last_cleanup, next_oid, sends, stop_cause, unlocked_writes, load_dropped, call>>

\* an add_one_time_task that does not take the lock
add_one_time_task_enters_unlocked(lock) == lock \in {"free", "tick"}

\* `with state_lock:` of add_one_time_task lets the caller in when the lock is free
add_one_time_task_enters(lock) == lock = "free"

\* ... and inside the lock: scheduled_tasks.append({...}); save_schedule()
ProducerAppend ==
  /\ pc \notin {"boot", "stopped"}
  /\ threads.producer = "waiting"
  /\ add_one_time_task_enters(threads.lock)
  /\ \E in \in ThreadInputs :
       scheduled_tasks' = Append(scheduled_tasks, manual_task(in, now, next_oid))
  /\ next_oid' = next_oid + 1
  /\ sends' = Append(sends, 0)
  /\ schedule_file' = save_schedule(scheduled_tasks')
  /\ threads' = [threads EXCEPT !.producer = "idle"]
  /\ unlocked_writes' = {}
  /\ UNCHANGED <<now, pc, bump_tasks, task_counter, last_cleanup, stop_cause, load_dropped, call>>

NextThreads ==
  \/ LoadSchedule
  \/ TickAcquire
  \/ TickIterate
  \/ TickFinish
  \/ ExecuteBumpTasks
  \/ LoopTail(ThreadInstants)
  \/ ProducerCall
  \/ ProducerAppend

SpecThreads == InitThreads /\ [][NextThreads]_vars

----------------------------------------------------------------------------
(* The parser functions called on their own (SpecParse) *)

MaxSeconds == 120   \* the largest count of seconds written as "<n>s"
MaxNum == 2         \* the largest integer of a "a:b:c" text
MaxNums == 4        \* the most integers in a "a:b:c" text
MaxLines == 6       \* the most lines in a message

\* str(n) for n >= 0
RECURSIVE str(_)
str(n) == IF n < 10 THEN <<Digits[n + 1]>> ELSE str(n \div 10) \o <<Digits[(n % 10) + 1]>>

\* "<n>s" in the two alphabets unit_map knows
SecondsUnits == {"s", "cy_s"}
SecondsGiven == [n : 0..MaxSeconds, unit : SecondsUnits]
SecondsText(g) == str(g.n) \o <<g.unit>>

\* texts such as "2:0m:1": integers, some followed by a unit word (m) or by
\* a word that is no unit (x), separated by colons
Items == [n : 0..MaxNum, unit : {"", "m"}]
ItemsGiven == SeqsUpTo(Items, MaxNums) \cup {<<[n |-> 1, unit |-> "x"], [n |-> 2, unit |-> ""]>>}
RECURSIVE ItemsText(_)
ItemsText(g) ==
  IF g = <<>> THEN <<>>
  ELSE str(g[1].n) \o Chars(g[1].unit)
         \o (IF Len(g) > 1 THEN <<":">> ELSE <<>>) \o ItemsText(Tail(g))

\* texts of the docstring and of the cooldown replies
ExampleTexts ==
  { Chars("02:05:30"), Chars("2h 5m"),
    <<"2", " ", "cy_ch", "cy_a", "cy_s", "cy_a", " ", "5", " ", "cy_m", "cy_i", "cy_n", "cy_u", "cy_t",
      " ", "3", "0", " ", "cy_s", "cy_e", "cy_k", "cy_u", "cy_n", "cy_d">>,
    Chars("10, 20"), Chars("1h 30"), Chars("5 s"), <<"5", " ", "cy_s">>, Chars("soon"), <<>> }

\* the lines a message is made of: what each holds
LineKinds == {"up0", "up5m", "bump2m", "hello"}
LineText(kind) ==
  IF kind = "up0" THEN Chars("/up 0s")
  ELSE IF kind = "up5m" THEN Chars("/up: 5m")
  ELSE IF kind = "bump2m" THEN Chars("/Bump 2m, 10:00:00")
  ELSE Chars("hello")
\* a message of given lines, as text.splitlines() will see it
MessageText(g) == JoinLines([i \in 1..Len(g) |-> LineText(g[i])])
MessagesGiven == SeqsUpTo(LineKinds, MaxLines)
ExampleMessages ==
  { Chars("5 /up\n/like soon"), Chars("\n  \n/like 7 \n\n"), Chars("/up 5m /bump 10m"),
    Chars("! up 3\n/up x") }

\* a call that has not returned yet; family says how arg was written from given
Calling(fn, family, given, arg) ==
  [fn |-> fn, family |-> family, given |-> given, arg |-> arg, done |-> FALSE,
   result |-> None]

ParseCalls(c) ==
  \/ \E g \in SecondsGiven :
       c = Calling("parse_duration_to_seconds", "seconds", g, SecondsText(g))
  \/ \E g \in ItemsGiven :
       c = Calling("parse_duration_to_seconds", "items", g, ItemsText(g))
  \/ \E t \in ExampleTexts :
       c = Calling("parse_duration_to_seconds", "example", <<>>, t)
  \/ \E f \in {"extract_latest_bump_message", "parse_time_from_message"} :
       \/ \E g \in MessagesGiven : c = Calling(f, "lines", g, MessageText(g))
       \/ \E t \in ExampleMessages : c = Calling(f, "example", <<>>, t)

InitParse ==
  /\ now = 0
  /\ pc = "call"
  /\ scheduled_tasks = <<>>
  /\ bump_tasks = <<>>
  /\ task_counter = 0
  /\ schedule_file = [kind |-> "missing"]
  /\ last_cleanup = 0
  /\ next_oid = 1
  /\ sends = <<>>
  /\ stop_cause = ""
  /\ unlocked_writes = {}
  /\ load_dropped = 0
  /\ threads = NoThreads
  /\ ParseCalls(call)

Returns(fn, value) ==
  /\ pc = "call"
  /\ call.fn = fn
  /\ ~ call.done
  /\ call' = [call EXCEPT !.done = TRUE, !.result = value]
  /\ pc' = "returned"
  /\ UNCHANGED <<now, scheduled_tasks, bump_tasks, task_counter, schedule_file, last_cleanup,
                 next_oid, sends, stop_cause, unlocked_writes, load_dropped, threads>>

CallParseDuration ==
  Returns("parse_duration_to_seconds", parse_duration_to_seconds(call.arg))

CallExtractLatest ==
  Returns("extract_latest_bump_message", extract_latest_bump_message(call.arg))

CallParseTime ==
  Returns("parse_time_from_message", parse_time_from_message(call.arg))

NextParse ==
  \/ CallParseDuration
  \/ CallExtractLatest
  \/ CallParseTime

SpecParse == InitParse /\ [][NextParse]_vars

----------------------------------------------------------------------------
(* Properties *)

\* The inputs one call of execute_bump_tasks may meet
TickDevices == [InStatus(bump_tasks, "sending") -> Devices]
TickCaptures == [InStatus(bump_tasks, "reading") -> CaptureEnvs]

\* the step of the workflow task throws
Raises(task, dev, cap) ==
  \/ /\ task.status = "sending"
     /\ send_message(task.command, task.double_enter,
                     Get(task, "double_space", FALSE), dev[task.id]) = "raise"
  \/ /\ task.status = "reading"
     /\ get_last_bump_message(cap[task.id]).kind = "raise"

\* the tick reaches the workflow at position i of bump_tasks
Observed(i, dev, cap) == \A j \in 1..(i - 1) : ~ Raises(bump_tasks[j], dev, cap)

\* the capture returns None or empty text
EmptyCapture(env) ==
  \/ get_last_bump_message(env).kind = "None"
  \/ get_last_bump_message(env).kind = "text" /\ get_last_bump_message(env).text = ""

StatusOf(list, id) == list[IndexOfId(list, id)].status

\* C1: every command that is pending and due when the scheduler tick runs is
\* handed to send_message exactly once and is no longer in scheduled_tasks
\* right after that tick.
C1_DueExecutedOnceAndRemoved ==
  [][(/\ pc \in {"menu", "sched"}
      /\ \/ pc' = "bump"
         \/ pc' = "stopped" /\ stop_cause' = "execute_scheduled_tasks")
     => \A o \in DueOids(scheduled_tasks, now) :
          /\ sends'[o] = 1
          /\ \A i \in 1..Len(scheduled_tasks') : scheduled_tasks'[i].oid # o]_vars

\* C2: a workflow in reading whose capture is None or empty is failed after
\* that tick; a failed workflow is gone after the next tick that reaches it;
\* a failed workflow never gets another status, and a workflow that left
\* bump_tasks never comes back, so it is never reading again.
C2_EmptyCaptureFailsAndIsPurged ==
  /\ [](pc = "bump" =>
          \A dev \in TickDevices, cap \in TickCaptures :
            \A after \in {execute_bump_tasks(TickCtx, now, dev, cap).bump} :
              \A i \in 1..Len(bump_tasks) :
                Observed(i, dev, cap) =>
                  /\ (bump_tasks[i].status = "reading" /\ EmptyCapture(cap[bump_tasks[i].id]))
                       => /\ bump_tasks[i].id \in Range(Ids(after))
                          /\ StatusOf(after, bump_tasks[i].id) = "failed"
                  /\ bump_tasks[i].status = "failed"
                       => bump_tasks[i].id \notin Range(Ids(after)))
  /\ [][/\ \A i \in 1..Len(bump_tasks) :
             bump_tasks[i].status = "failed" =>
               \A k \in 1..Len(bump_tasks') :
                 bump_tasks'[k].id = bump_tasks[i].id => bump_tasks'[k].status = "failed"
        /\ \A id \in 0..(task_counter - 1) :
             id \notin Range(Ids(bump_tasks)) => id \notin Range(Ids(bump_tasks'))]_vars

\* a tick has just failed a workflow in its reading step (it has a response
\* deadline and no message)
C2_Witness ==
  /\ pc = "tail"
  /\ \E i \in 1..Len(bump_tasks) :
       /\ bump_tasks[i].status = "failed"
       /\ Has(bump_tasks[i], "response_deadline")
       /\ ~ Has(bump_tasks[i], "message")

\* C3: cleanup_old_tasks removes all and only the entries with
\* time < now - max_age; an entry with time = now - max_age is kept.
C3_EvictsOnlyStrictlyOlder ==
  pc = "menu" =>
    \/ cleanup_old_tasks(scheduled_tasks, now, MAX_AGE_SECONDS).raised
    \/ cleanup_old_tasks(scheduled_tasks, now, MAX_AGE_SECONDS).tasks
         = SelectSeq(scheduled_tasks, LAMBDA t : ~ (t.time < now - MAX_AGE_SECONDS))

\* a record of the file that is an object with a non-empty string command
\* free of "|"
ValidRecord(r) ==
  /\ ~ Has(r, "json")
  /\ Has(r, "command")
  /\ r.command # NotStr
  /\ r.command # ""
  /\ ~ Contains(r.command, "|")

\* C4: loading a record list keeps exactly the valid records, in order, and
\* when a record was dropped the file is rewritten to hold exactly the kept
\* records.
C4_LoadKeepsValidRecords ==
  [][(pc = "boot" /\ schedule_file.kind = "list")
     => /\ Dump(scheduled_tasks') = SelectSeq(schedule_file.records, ValidRecord)
        /\ Len(SelectSeq(schedule_file.records, ValidRecord)) < Len(schedule_file.records)
             => schedule_file' = [kind    |-> "list",
                                  records |-> SelectSeq(schedule_file.records, ValidRecord)]]_vars

\* the load kept a record and dropped another
C4_Witness ==
  /\ pc = "menu"
  /\ load_dropped > 0
  /\ Len(scheduled_tasks) > 0
  /\ schedule_file = save_schedule(scheduled_tasks)

\* C5: a fault raised while one command or workflow is processed does not
\* stop the tick loop: main_loop ends only when the operator chooses exit.
C5_FaultIsIsolated == pc = "stopped" => stop_cause = "exit"

\* the step of the workflow w ends in failed
FailsThisTick(w, dev, cap) ==
  \/ /\ w.status = "sending"
     /\ send_message(w.command, w.double_enter,
                     Get(w, "double_space", FALSE), dev[w.id]) = "False"
  \/ w.status = "reading" /\ EmptyCapture(cap[w.id])
  \/ /\ w.status = "parsing"
     /\ ~ parse_time_from_message(Chars(Get(w, "message", "")))["success"]

Without(list, id) == SelectSeq(list, LAMBDA t : t.id # id)

C7_IdsNeverReused ==
  \A i, j \in 1..Len(scheduled_tasks) :
    i # j => scheduled_tasks[i].id # scheduled_tasks[j].id

\* C8: right after a scheduler tick every entry of scheduled_tasks is pending.
C8_OnlyPendingAfterTick ==
  pc = "bump" =>
    \A i \in 1..Len(scheduled_tasks) :
      Has(scheduled_tasks[i], "status") /\ scheduled_tasks[i].status = "pending"

\* C9: a step that enqueues commands (add_one_time_task, or the scheduling
\* step of a workflow) leaves them pending and the file equal to
\* scheduled_tasks.
C9_EnqueuePersists ==
  [][(pc # "boot" /\ Len(scheduled_tasks') > Len(scheduled_tasks))
     => /\ schedule_file' = [kind |-> "list", records |-> Dump(scheduled_tasks')]
        /\ \A i \in (Len(scheduled_tasks) + 1)..Len(scheduled_tasks') :
             scheduled_tasks'[i].status = "pending"]_vars

\* the scheduling step of a workflow has just enqueued a command next to a
\* command added by hand
C9_Witness ==
  /\ pc = "tail"
  /\ \E i \in 1..Len(bump_tasks) :
       bump_tasks[i].status = "completed" /\ bump_tasks[i].scheduled_subtasks # <<>>
  /\ \E i \in 1..Len(scheduled_tasks) : scheduled_tasks[i].id[1] = "manual"
  /\ schedule_file = save_schedule(scheduled_tasks)

\* C10: every mutation of scheduled_tasks and of bump_tasks is made while
\* state_lock is held.
C10_MutationsHoldLock == unlocked_writes = {}

\* C11: what a scheduler tick executes and what it removes was in
\* scheduled_tasks when the tick started; an entry a second thread enqueues
\* is not touched by a tick that was already under way.
C11_TickProcessesSnapshot ==
  /\ [](pc = "in_tick" => Range(threads.completed) \subseteq threads.snapshot)
  /\ [][pc = "in_tick" =>
          (Oids(scheduled_tasks) \ Oids(scheduled_tasks')) \subseteq threads.snapshot]_vars

\* the second thread is held at the lock while the tick has executed a command
C11_Witness ==
  /\ pc = "in_tick"
  /\ threads.producer = "waiting"
  /\ threads.completed # <<>>

\* the targets of the workflow w for which a duration was parsed, in order
TargetsWithDuration(w) ==
  SelectSeq(w.commands_to_schedule,
            LAMBDA c : c \in DOMAIN w.parsed_times /\ w.parsed_times[c] # None)

\* the commands the scheduling step of the workflow w appends, and the
\* workflow after it
SpawnedBy(w) ==
  LET out == _schedule_parsed_commands(TickCtx, w.id, now)
  IN  [old   |-> SubSeq(out.sched, 1, Len(scheduled_tasks)),
       new   |-> SubSeq(out.sched, Len(scheduled_tasks) + 1, Len(out.sched)),
       after |-> out.bump[IndexOfId(out.bump, w.id)]]

\* C12: the scheduling step enqueues, for each target with a parsed duration
\* d, in targets order, one pending command for that target with
\* time = now + d + 10, the workflow's id as source_task_id and the workflow's
\* double_enter, and appends it to the workflow's scheduled_subtasks; a
\* target without a parsed duration enqueues nothing.
C12_SchedulingStepEnqueuesPerTarget ==
  pc = "bump" =>
    \A i \in 1..Len(bump_tasks) :
      bump_tasks[i].status = "scheduling" =>
        \A w \in {bump_tasks[i]} : \A tg \in {TargetsWithDuration(w)} :
          \A sp \in {SpawnedBy(w)} :
            /\ sp.old = scheduled_tasks
            /\ Len(sp.new) = Len(tg)
            /\ \A k \in 1..Len(tg) :
                 /\ sp.new[k].command = tg[k]
                 /\ sp.new[k].time = now + w.parsed_times[tg[k]] + 10
                 /\ sp.new[k].source_task_id = w.id
                 /\ sp.new[k].double_enter = w.double_enter
                 /\ sp.new[k].status = "pending"
            /\ sp.after.scheduled_subtasks
                 = w.scheduled_subtasks \o [k \in 1..Len(tg) |-> sp.new[k].oid]

\* a workflow with three targets has just scheduled the only one for which
\* the message gave a duration
C12_Witness ==
  /\ pc = "tail"
  /\ \E i \in 1..Len(bump_tasks) :
       /\ bump_tasks[i].status = "completed"
       /\ Len(bump_tasks[i].commands_to_schedule) = 3
       /\ Len(bump_tasks[i].scheduled_subtasks) = 1

\* a parser call of the given function and family has returned
Returned(fn, family) == call.done /\ call.fn = fn /\ call.family = family

\* C13: for every n from 1 up, parse_duration_to_seconds of str(n) followed
\* by "s" or by the Cyrillic seconds letter is n.
C13_SecondsTextGivesN ==
  (Returned("parse_duration_to_seconds", "seconds") /\ call.given.n >= 1)
    => call.result = call.given.n

\* the smallest count of seconds, written with the Cyrillic letter
C13_Witness ==
  /\ Returned("parse_duration_to_seconds", "seconds")
  /\ call.given = [n |-> 1, unit |-> "cy_s"]
  /\ call.arg = <<"1", "cy_s">>
  /\ call.result = 1

\* what the unit words of the items add up to
RECURSIVE UnitSum(_)
UnitSum(g) ==
  IF g = <<>> THEN 0
  ELSE (IF g[1].unit = "m" THEN 60 * g[1].n ELSE 0) + UnitSum(Tail(g))

\* C14: when the <integer><unit word> matches add up to zero the integers of
\* the text are read in order as h:m:s (three or more, the rest ignored),
\* m:s (two) or s (one); when they add up to something else that sum is the
\* total and integers without a unit add nothing; the total is returned if it
\* is positive, None otherwise.  "02:05:30" gives 7530.
C14_BareIntegersOnlyWithoutUnits ==
  /\ Returned("parse_duration_to_seconds", "items") =>
       \A g \in {call.given} :
         LET n == [i \in 1..Len(g) |-> g[i].n]
             total == IF UnitSum(g) # 0 THEN UnitSum(g)
                      ELSE IF Len(g) >= 3 THEN n[1] * 3600 + n[2] * 60 + n[3]
                      ELSE IF Len(g) = 2 THEN n[1] * 60 + n[2]
                      ELSE IF Len(g) = 1 THEN n[1]
                      ELSE 0
         IN  call.result = IF total > 0 THEN total ELSE None
  /\ (Returned("parse_duration_to_seconds", "example") /\ call.arg = Chars("02:05:30"))
       => call.result = 7530

\* four integers without a unit: the fourth is ignored
C14_Witness ==
  /\ Returned("parse_duration_to_seconds", "items")
  /\ call.arg = Chars("1:2:0:2")
  /\ call.result = 3720

\* the lines of a message that hold a command and, after it, a digit
MatchingKinds == {"up0", "up5m", "bump2m"}
\* the last five of them, fewer if there are fewer
BlockOf(g) ==
  LET m == SelectSeq(g, LAMBDA k : k \in MatchingKinds)
      first == IF Len(m) <= 5 THEN 1 ELSE Len(m) - 4
  IN  [i \in 1..(Len(m) - first + 1) |-> m[first + i - 1]]

\* C15: parse_time_from_message reads each command from the first line of
\* the candidate block that holds it and from no other: when that line gives
\* no duration the command's result is None even if a later line would give
\* one; success is TRUE iff one of the three results is not None.
C15_FirstLineDecides ==
  Returned("parse_time_from_message", "lines") =>
    \A b \in {BlockOf(call.given)} :
      LET first(kinds) ==
            IF \E i \in 1..Len(b) : b[i] \in kinds
            THEN b[CHOOSE i \in 1..Len(b) :
                     b[i] \in kinds /\ \A j \in 1..(i - 1) : b[j] \notin kinds]
            ELSE "none"
          up == IF first({"up0", "up5m"}) = "up5m" THEN 300 ELSE None
          bump == IF first({"bump2m"}) = "bump2m" THEN 120 ELSE None
      IN  /\ call.result["/up"] = up
          /\ call.result["/bump"] = bump
          /\ call.result["/like"] = None
          /\ call.result["success"] = (up # None \/ bump # None)

\* the first /up line gives no duration, a later one would, and /bump is read
C15_Witness ==
  /\ Returned("parse_time_from_message", "lines")
  /\ call.given = <<"up0", "bump2m", "up5m">>
  /\ call.result["/up"] = None
  /\ call.result["success"]

\* C16: extract_latest_bump_message returns the lines that hold a command
\* followed by a digit, the last five of them when there are more, in the
\* order of the message; all of them when there are five or fewer; None when
\* there is none.
C16_LastFiveMatchingLines ==
  Returned("extract_latest_bump_message", "lines") =>
    \A b \in {BlockOf(call.given)} :
      call.result = IF b = <<>> THEN NoneText
                    ELSE JoinLines([i \in 1..Len(b) |-> LineText(b[i])])

\* six matching lines: the first one is left out
C16_Witness ==
  /\ Returned("extract_latest_bump_message", "lines")
  /\ call.given = <<"up0", "up5m", "bump2m", "up5m", "up0", "bump2m">>
  /\ call.result = MessageText(<<"up5m", "bump2m", "up5m", "up0", "bump2m">>)

\* the keystrokes of the command reach the window: pasted when the text
\* starts with "/", typed or else pasted otherwise
Delivered(task, d) ==
  IF startswith(_apply_double_space(task.command), "/")
  THEN d.clipboard_ok
  ELSE d.typewrite_ok \/ d.clipboard_ok

\* C17: the tick of a workflow in sending sends its command; when the send
\* succeeds the workflow is in waiting_response with
\* response_deadline = now + 5, when it fails the workflow is failed and has
\* no response_deadline.
C17_SendOutcomeDecidesStatus ==
  pc = "bump" =>
    \A i \in 1..Len(bump_tasks) :
      bump_tasks[i].status = "sending" =>
        \A d \in Devices :
          \A out \in {step_sending(TickCtx, bump_tasks[i].id, now, d)} :
            \A w \in {out.bump[IndexOfId(out.bump, bump_tasks[i].id)]} :
              IF Delivered(bump_tasks[i], d)
              THEN /\ w.status = "waiting_response"
                   /\ Has(w, "response_deadline")
                   /\ w.response_deadline = now + 5
              ELSE /\ w.status = "failed"
                   /\ ~ Has(w, "response_deadline")

\* the workflow id is in the list with exactly the fields of w
SameIn(list, w) == w.id \in Range(Ids(list)) /\ list[IndexOfId(list, w.id)] = w

\* C18: a workflow stops being waiting only in a tick with
\* now >= start_time and stops being waiting_response only in a tick with
\* now >= response_deadline; a tick before that leaves all its fields as
\* they were.  The deadline is set to now + 5 by the tick that sends the
\* command and does not change, so the tick that captures the reply (the
\* workflow is reading) runs at least 5 seconds after the one that sent.
C18_WaitingIsDeadlineGated ==
  /\ [][\A i \in 1..Len(bump_tasks) :
          \A w \in {bump_tasks[i]} :
            /\ (w.status = "waiting" /\ ~ (pc = "bump" /\ now >= w.start_time))
                 => SameIn(bump_tasks', w)
            /\ (w.status = "waiting_response"
                  /\ ~ (pc = "bump" /\ now >= w.response_deadline))
                 => SameIn(bump_tasks', w)
            /\ (w.status = "sending" /\ ~ SameIn(bump_tasks', w))
                 => bump_tasks'[IndexOfId(bump_tasks', w.id)].response_deadline = now + 5
            /\ (Has(w, "response_deadline") /\ w.id \in Range(Ids(bump_tasks')))
                 => bump_tasks'[IndexOfId(bump_tasks', w.id)].response_deadline
                      = w.response_deadline]_vars
  /\ [](\A i \in 1..Len(bump_tasks) :
          bump_tasks[i].status \in {"waiting_response", "reading"}
            => /\ Has(bump_tasks[i], "response_deadline")
               /\ bump_tasks[i].status = "reading" => now >= bump_tasks[i].response_deadline)

\* a tick has run over a workflow whose start_time is still ahead and one
\* whose reply is not due yet
C18_Witness ==
  /\ pc = "tail"
  /\ \E i, j \in 1..Len(bump_tasks) :
       /\ bump_tasks[i].status = "waiting"
       /\ now < bump_tasks[i].start_time
       /\ bump_tasks[j].status = "waiting_response"
       /\ now < bump_tasks[j].response_deadline

\* what parse_time_from_message makes of the text the workflow captured
ParseOf(w) == parse_time_from_message(Chars(Get(w, "message", "")))

\* C19: the tick of a workflow in parsing leaves it in scheduling, with the
\* parsed durations stored, when parse_time_from_message of its message has
\* success = TRUE, and failed when it has not; and the engine appends a
\* command to scheduled_tasks only for a workflow whose parse succeeded.
C19_ParseGate ==
  /\ [](pc = "bump" =>
          \A i \in 1..Len(bump_tasks) :
            bump_tasks[i].status = "parsing" =>
              \A w \in {bump_tasks[i]} : \A p \in {ParseOf(w)} :
                \A after \in {LET out == step_parsing(TickCtx, w.id)
                              IN  out.bump[IndexOfId(out.bump, w.id)]} :
                  IF p["success"]
                  THEN after.status = "scheduling" /\ after.parsed_times = p
                  ELSE after.status = "failed" /\ after.parsed_times = <<>>)
  /\ [][pc = "bump" =>
          \A k \in 1..Len(scheduled_tasks') :
            scheduled_tasks'[k].oid \notin Oids(scheduled_tasks) =>
              \E i \in 1..Len(bump_tasks) :
                /\ bump_tasks[i].id = scheduled_tasks'[k].source_task_id
                /\ bump_tasks[i].status = "scheduling"
                /\ ParseOf(bump_tasks[i])["success"]]_vars

\* a tick has failed a workflow whose captured text gave no duration
C19_Witness ==
  /\ pc = "tail"
  /\ \E i \in 1..Len(bump_tasks) :
       /\ bump_tasks[i].status = "failed"
       /\ Has(bump_tasks[i], "message")
       /\ ~ ParseOf(bump_tasks[i])["success"]
       /\ bump_tasks[i].scheduled_subtasks = <<>>

\* C20: a workflow in scheduling has a parsed duration for at least one of
\* its targets, and a workflow that is completed has spawned at least one
\* command.
C20_CompletedHasSpawned ==
  \A i \in 1..Len(bump_tasks) :
    /\ bump_tasks[i].status = "scheduling" => TargetsWithDuration(bump_tasks[i]) # <<>>
    /\ bump_tasks[i].status = "completed" => bump_tasks[i].scheduled_subtasks # <<>>

\* the workflow has ended
Terminal(w) == w.status \in {"completed", "failed"}

\* C21: the tick that reaches a workflow whose status is completed or failed
\* takes it out of bump_tasks and does nothing else for it: nothing is sent,
\* nothing is captured, nothing is appended to scheduled_tasks or written to
\* the file; and a workflow that has left bump_tasks is never in it again.
C21_TerminalIsPurgedAndNothingElse ==
  /\ [](pc = "bump" =>
          \A i \in 1..Len(bump_tasks) :
            Terminal(bump_tasks[i]) =>
              /\ \A out \in {bump_step(TickCtx, bump_tasks[i].id, now, <<>>, <<>>)} :
                   /\ out = [TickCtx EXCEPT !.bump = Without(bump_tasks, bump_tasks[i].id)]
                   /\ Len(out.bump) = Len(bump_tasks) - 1
              /\ \A dev \in TickDevices, cap \in TickCaptures :
                   Observed(i, dev, cap) =>
                     bump_tasks[i].id
                       \notin Range(Ids(execute_bump_tasks(TickCtx, now, dev, cap).bump)))
  /\ [][\A id \in 0..(task_counter - 1) :
          id \notin Range(Ids(bump_tasks)) => id \notin Range(Ids(bump_tasks'))]_vars

\* a workflow that spawned a command in this run is no longer in bump_tasks
C21_Witness ==
  /\ pc = "tail"
  /\ \E k \in 1..Len(scheduled_tasks) :
       /\ scheduled_tasks[k].oid > 1
       /\ Has(scheduled_tasks[k], "source_task_id")
       /\ scheduled_tasks[k].source_task_id < task_counter
       /\ scheduled_tasks[k].source_task_id \notin Range(Ids(bump_tasks))

\* how far along its life a workflow is
Rank(status) ==
  IF status = "waiting" THEN 0
  ELSE IF status = "sending" THEN 1
  ELSE IF status = "waiting_response" THEN 2
  ELSE IF status = "reading" THEN 3
  ELSE IF status = "parsing" THEN 4
  ELSE IF status = "scheduling" THEN 5
  ELSE 6

\* C22: nothing is tried twice.  A workflow is sent only by a tick that finds
\* it in sending and captured only by a tick that finds it in reading; such a
\* tick either moves it further along or ends main_loop, a workflow never
\* moves back, and nothing runs once main_loop has ended: so each happens at
\* most once per workflow.  send_message is called at most once for any
\* command, and a tick does not call it for a command whose status is error.
C22_NothingIsRetried ==
  /\ [][/\ pc # "stopped"
        /\ \A i \in 1..Len(bump_tasks) : \A k \in 1..Len(bump_tasks') :
             bump_tasks'[k].id = bump_tasks[i].id =>
               /\ Rank(bump_tasks'[k].status) >= Rank(bump_tasks[i].status)
               /\ (/\ pc = "bump"
                   /\ pc' # "stopped"
                   /\ bump_tasks[i].status \in {"sending", "reading"})
                    => Rank(bump_tasks'[k].status) > Rank(bump_tasks[i].status)]_vars
  /\ [](\A o \in 1..Len(sends) : sends[o] <= 1)
  /\ [](\A i \in 1..Len(scheduled_tasks) :
          (Has(scheduled_tasks[i], "status") /\ scheduled_tasks[i].status = "error")
            => \A t \in Instants \cup BumpInstants :
                 scheduled_tasks[i].oid \notin DueOids(scheduled_tasks, t))

\* a workflow was sent and captured a tick or more ago, and a command has
\* been sent
C22_Witness ==
  /\ pc = "tail"
  /\ \E i \in 1..Len(bump_tasks) :
       /\ Has(bump_tasks[i], "message")
       /\ Rank(bump_tasks[i].status) >= 5
  /\ \E o \in 1..Len(sends) : sends[o] = 1
  /\ \E k \in 1..Len(scheduled_tasks) :
       /\ scheduled_tasks[k].status = "error"
       /\ scheduled_tasks[k].time <= now
       /\ sends[scheduled_tasks[k].oid] = 0

\* C23: for an entry that is pending and due the tick calls send_message with
\* the entry's command, double_enter and double_space; the entry is then
\* executed when the send succeeded and error when it failed, and is among
\* the entries the tick removes at its end.
C23_SendOutcomeDecidesEntryStatus ==
  pc \in {"menu", "sched"} =>
    \A i \in 1..Len(scheduled_tasks) :
      IsDue(scheduled_tasks[i], now) =>
        \A d \in Devices :
          \A st \in {sched_body([tasks |-> scheduled_tasks, completed |-> <<>>,
                                 sends |-> sends, raised |-> FALSE],
                                i, now, [o \in {scheduled_tasks[i].oid} |-> d])} :
            /\ st.sends[scheduled_tasks[i].oid] = sends[scheduled_tasks[i].oid] + 1
            /\ st.tasks[i].status
                 = IF Delivered(scheduled_tasks[i], d) THEN "executed" ELSE "error"
            /\ st.completed = <<scheduled_tasks[i].oid>>

\* the step is a call of execute_scheduled_tasks()
SchedulerTick ==
  /\ pc \in {"menu", "sched"}
  /\ \/ pc' = "bump"
     \/ pc' = "stopped" /\ stop_cause' = "execute_scheduled_tasks"

\* C24: an entry whose time is later than now comes out of a scheduler tick
\* as it went in: it is still in scheduled_tasks with all its fields, and
\* send_message was not called for it, whatever else the tick executed and
\* removed.
C24_NotDueIsUntouched ==
  [][SchedulerTick =>
       \A i \in 1..Len(scheduled_tasks) :
         (Has(scheduled_tasks[i], "time") /\ scheduled_tasks[i].time > now) =>
           /\ \E k \in 1..Len(scheduled_tasks') : scheduled_tasks'[k] = scheduled_tasks[i]
           /\ sends'[scheduled_tasks[i].oid] = sends[scheduled_tasks[i].oid]]_vars

\* a tick has executed and removed one command and kept one that is due later
C24_Witness ==
  /\ pc = "bump"
  /\ \E i \in 1..Len(scheduled_tasks) :
       /\ Has(scheduled_tasks[i], "time") /\ scheduled_tasks[i].time > now
       /\ Has(scheduled_tasks[i], "status") /\ scheduled_tasks[i].status = "pending"
       /\ sends[scheduled_tasks[i].oid] = 0
  /\ \E o \in 1..Len(sends) : sends[o] = 1 /\ o \notin Oids(scheduled_tasks)

\* C25: main_loop calls execute_scheduled_tasks() before execute_bump_tasks().
\* A command appended by the engine's tick is pending, unsent and due later
\* than now; send_message is called only by the scheduler's tick, for an
\* entry that was in scheduled_tasks before that tick and whose time has
\* come; and after the engine's tick the iteration ends before the scheduler
\* runs again.
C25_SpawnedRunsInLaterIteration ==
  [][/\ pc = "bump" =>
          /\ pc' \in {"tail", "stopped"}
          /\ \A k \in 1..Len(scheduled_tasks') :
               scheduled_tasks'[k].oid \notin Oids(scheduled_tasks) =>
                 /\ scheduled_tasks'[k].status = "pending"
                 /\ scheduled_tasks'[k].time > now
                 /\ sends'[scheduled_tasks'[k].oid] = 0
     /\ pc' = "bump" => pc \in {"menu", "sched"}
     /\ \A o \in 1..Len(sends) :
          sends'[o] # sends[o] =>
            /\ SchedulerTick
            /\ o \in Oids(scheduled_tasks)
            /\ now >= ByOid(scheduled_tasks, o).time]_vars

\* a command spawned by a workflow of this run has been sent
C25_Witness ==
  /\ pc = "bump"
  /\ \E o \in 1..Len(sends) :
       /\ \A f \in BumpFiles : o > Len(f.records)
       /\ sends[o] = 1
       /\ o \notin Oids(scheduled_tasks)

\* the status that follows status when its step succeeds
Successor(status) ==
  IF status = "waiting" THEN "sending"
  ELSE IF status = "sending" THEN "waiting_response"
  ELSE IF status = "waiting_response" THEN "reading"
  ELSE IF status = "reading" THEN "parsing"
  ELSE IF status = "parsing" THEN "scheduling"
  ELSE "completed"

\* C26: a tick of the engine takes every workflow that was in bump_tasks when
\* it started through exactly one step of its own: a terminal workflow is
\* gone, any other is still there with the status one step gives it, which
\* is its old status, the next one, or failed, whatever the tick removes.
C26_EachWorkflowOneStep ==
  pc = "bump" =>
    \A dev \in TickDevices, cap \in TickCaptures :
      \A after \in {execute_bump_tasks(TickCtx, now, dev, cap).bump} :
        \A i \in 1..Len(bump_tasks) :
          \A w \in {bump_tasks[i]} :
            IF Terminal(w) THEN w.id \notin Range(Ids(after))
            ELSE
              /\ w.id \in Range(Ids(after))
              /\ StatusOf(after, w.id) \in {w.status, Successor(w.status), "failed"}
              /\ \A one \in {bump_step([TickCtx EXCEPT !.bump = <<w>>], w.id, now, dev, cap)} :
                   StatusOf(after, w.id) = one.bump[1].status

\* the workflow id is in bump_tasks
Active(id) == id \in Range(Ids(bump_tasks))

\* the clock has gone on to its last reading
ClockDone == \A t \in BumpInstants : t <= now

\* the workflow id waits for a clock reading that the clock of the model,
\* now at its last reading, never shows
BeyondTheClock(id) ==
  /\ Active(id)
  /\ ClockDone
  /\ \E w \in {bump_tasks[IndexOfId(bump_tasks, id)]} :
       \/ w.status = "waiting" /\ now < w.start_time
       \/ w.status = "waiting_response" /\ now < w.response_deadline

\* C27: while main_loop keeps running (no call throws) and the clock goes
\* on, every workflow leaves bump_tasks, and it leaves as completed or as
\* failed: a failed workflow is never completed, a completed one never
\* failed.
C27_EveryWorkflowEnds ==
  /\ \A id \in 0..(MaxBump - 1) :
       Active(id) ~> (\/ id < task_counter /\ ~ Active(id)
                      \/ pc = "stopped"
                      \/ BeyondTheClock(id))
  /\ [][\A i \in 1..Len(bump_tasks) :
          /\ bump_tasks[i].id \notin Range(Ids(bump_tasks')) => Terminal(bump_tasks[i])
          /\ (Terminal(bump_tasks[i]) /\ bump_tasks[i].id \in Range(Ids(bump_tasks')))
               => StatusOf(bump_tasks', bump_tasks[i].id) = bump_tasks[i].status]_vars

\* both workflows of the run have ended and left bump_tasks, and main_loop
\* is still running
C27_Witness ==
  /\ pc = "tail"
  /\ stop_cause = ""
  /\ task_counter = MaxBump
  /\ bump_tasks = <<>>
  /\ \E k \in 1..Len(scheduled_tasks) :
       Has(scheduled_tasks[k], "source_task_id") /\ scheduled_tasks[k].oid >= 3

\* C28: once load_schedule has run, after every operation the records of
\* schedule.json are the entries of scheduled_tasks, so that a start from
\* the file never brings back a command a tick has executed and removed.
C28_FileEqualsMemory ==
  pc # "boot" => schedule_file.records = Dump(scheduled_tasks)

\* C29: whenever an entry that is pending leaves scheduled_tasks,
\* send_message has been called for it, in that step or before.
C29_PendingLeavesOnlyAfterSend ==
  [][\A i \in 1..Len(scheduled_tasks) :
       (/\ Has(scheduled_tasks[i], "status")
        /\ scheduled_tasks[i].status = "pending"
        /\ scheduled_tasks[i].oid \notin Oids(scheduled_tasks'))
         => sends'[scheduled_tasks[i].oid] >= 1]_vars

====
